---- MODULE Spec2Model ----
(***************************************************************************)
(* QuotaWatch: the background polling-and-notification subsystem.          *)
(*                                                                         *)
(* State: the relational tables (platformprovider, managedapikey,          *)
(* balancelog, notificationrule), the arq job queue, the running jobs of   *)
(* the arq workers, the APScheduler job schedule_all_key_checks and the    *)
(* wall clock read by datetime.utcnow().                                   *)
(*                                                                         *)
(* Amounts are whole currency units; the usage endpoint's total_usage is   *)
(* in minor units and the inputs are multiples of 100, on which the        *)
(* float division of the code and the integer division here agree.        *)
(***************************************************************************)
EXTENDS Integers, Sequences, FiniteSets, Bags, TLC

VARIABLES
    platforms,      \* table platformprovider: id -> adapter_identifier
    keys,           \* table managedapikey: id -> row
    rules,          \* table notificationrule: key_id -> row (key_id is unique)
    logs,           \* table balancelog: set of rows
    nextKeyId,      \* autoincrement of managedapikey.id
    nextLogId,      \* autoincrement of balancelog.id
    queue,          \* arq queue: bag of jobs not yet picked up
    workers,        \* arq job slots: slot -> the coroutine it runs
    done,           \* the job execution that ended last, as arq records it
    outcomes,       \* per credential: check executions ended ok / failed so far
    sched,          \* schedule_all_key_checks: the running or last tick
    clock,          \* datetime.utcnow(): the last value read
    apiKey,         \* Fernet key of the API process
    workerKey,      \* Fernet key of the worker process
    issued,         \* check jobs put on the queue so far
    ticks,          \* periodic ticks started so far
    api,            \* status of the last answer of a REST handler
    call            \* the last direct call of the adapter registry or of an adapter

tables == <<platforms, keys, rules, logs, nextKeyId, nextLogId>>
fernet == <<apiKey, workerKey>>
vars == <<tables, queue, workers, done, outcomes, sched, clock, fernet, issued, ticks, api,
          call>>

(***************************************************************************)
(* Bounds of the model.                                                    *)
(***************************************************************************)
MaxJobs == 2
MaxTicks == 1

\* Python's None, and a number held by an Optional[float] or Optional[datetime].
Null == [null |-> TRUE]
Num(x) == [val |-> x]

\* Two job slots, so that two jobs can overlap.
Slots == {1, 2}
\* The ids a request can name, and the ids create_key hands out in a run.
KeyIds == {1, 2}
Creatable == {1}
\* The platform ids a request can name: the seeded ones and one that is not stored.
PlatformIds == {1, 2, 3}
Users == {1, 2}
Creators == {1}
Secrets == {"sk-live"}
Names == {"prod"}
Metadatas == {[f \in {} |-> 0], [total_grant |-> 2]}
Thresholds == {1}
Channels == {"email", "webhook", "sms"}
Addresses == {"ops"}
Credits == {1, 3}
Usages == {100}

(***************************************************************************)
(* seed_platforms.PLATFORMS: the rows seeded at startup.                   *)
(***************************************************************************)
PLATFORMS == (1 :> "openrouter") @@ (2 :> "openai")

(***************************************************************************)
(* security.py: the process-wide Fernet key.  MASTER_ENCRYPTION_KEY is     *)
(* read at import; the value "generate" makes every process that imports   *)
(* the module draw a key of its own.                                       *)
(***************************************************************************)
MasterKeySettings == {"K1", "generate"}

ProcessKey(setting, process) ==
    IF setting = "generate" THEN <<"generated", process>> ELSE <<"configured", setting>>

\* The str values of the model and their code points: the empty string, the
\* secret, and two strings outside ASCII ("cl\u00e9", "\u20ac5").
Text ==
    ("" :> <<>>) @@ ("sk-live" :> <<115, 107, 45, 108, 105, 118, 101>>)
    @@ ("cle" :> <<99, 108, 233>>) @@ ("eur5" :> <<8364, 53>>)

\* A str that is none of the above.
OtherText == "other"

\* Faulty variant of Utf8Encode: one byte per code point (its low 8 bits).
RECURSIVE Utf8EncodeNarrow(_)
Utf8EncodeNarrow(cps) ==
    IF cps = <<>> THEN <<>>
    ELSE <<Head(cps) % 256>> \o Utf8EncodeNarrow(Tail(cps))

\* str.encode(): the UTF-8 bytes of a sequence of code points.
RECURSIVE Utf8Encode(_)
Utf8Encode(cps) ==
    IF cps = <<>> THEN <<>>
    ELSE LET c == Head(cps) IN
         (IF c < 128 THEN <<c>>
          ELSE IF c < 2048 THEN <<192 + (c \div 64), 128 + (c % 64)>>
          ELSE <<224 + (c \div 4096), 128 + ((c \div 64) % 64), 128 + (c % 64)>>)
         \o Utf8Encode(Tail(cps))

\* bytes.decode(): the code points of UTF-8 bytes, or a UnicodeDecodeError.
RECURSIVE Utf8Decode(_)
Utf8Decode(bytes) ==
    IF bytes = <<>> THEN [ok |-> TRUE, cps |-> <<>>]
    ELSE LET b == Head(bytes)
             n == IF b < 128 THEN 1
                  ELSE IF b \in 192..223 THEN 2
                  ELSE IF b \in 224..239 THEN 3
                  ELSE 0
             IsCont(i) == bytes[i] \in 128..191
         IN  IF n = 0 \/ Len(bytes) < n \/ \E i \in 2..n : ~IsCont(i)
             THEN [ok |-> FALSE, cps |-> <<>>]
             ELSE LET c == IF n = 1 THEN b
                           ELSE IF n = 2 THEN (b - 192) * 64 + (bytes[2] - 128)
                           ELSE (b - 224) * 4096 + (bytes[2] - 128) * 64 + (bytes[3] - 128)
                      rest == Utf8Decode(SubSeq(bytes, n + 1, Len(bytes)))
                  IN  IF rest.ok THEN [ok |-> TRUE, cps |-> <<c>> \o rest.cps]
                      ELSE rest

\* The str that has the given code points.
TextOf(cps) ==
    IF \E t \in DOMAIN Text : Text[t] = cps
    THEN CHOOSE t \in DOMAIN Text : Text[t] = cps
    ELSE OtherText

\* Faulty variant of encrypt: the data is encoded without the key, so that
\* the stored value is readable by anyone.
encrypt_encoded(key, data) ==
    [token |-> "plain", key |-> key, data |-> Utf8Encode(Text[data])]

\* EncryptionService.encrypt: fernet.encrypt(data.encode()).decode().  A
\* Fernet token binds the bytes to the key.
encrypt(key, data) ==
    [token |-> "fernet", key |-> key, data |-> Utf8Encode(Text[data])]

DecryptionError == "InvalidToken"
UnicodeDecodeError == "UnicodeDecodeError"

\* EncryptionService.decrypt: fernet.decrypt(token.encode()).decode().
\* InvalidToken unless the token is a Fernet token made under key.
decrypt(key, token) ==
    IF token.token = "fernet" /\ token.key = key
    THEN LET decoded == Utf8Decode(token.data)
         IN  IF decoded.ok THEN TextOf(decoded.cps) ELSE UnicodeDecodeError
    ELSE DecryptionError

(***************************************************************************)
(* The HTTP exchange of an adapter: status 0 stands for a transport        *)
(* failure (timeout, connection refused), otherwise the status line and    *)
(* what the body holds under the field the adapter reads.                  *)
(***************************************************************************)
Statuses == {0, 200, 404}
Bodies == {"number", "not_json"}
Responses(values) == [status : Statuses, body : Bodies, value : values]

Ok(balance, is_estimate) ==
    [ok |-> TRUE, balance |-> balance, is_estimate |-> is_estimate, error |-> "none"]
Err(error) ==
    [ok |-> FALSE, balance |-> 0, is_estimate |-> FALSE, error |-> error]

Max(a, b) == IF a >= b THEN a ELSE b

\* httpx.Response.raise_for_status
IsSuccess(status) == status \in 200..299

\* OpenRouterAdapter.fetch_balance: one GET, the "credits" field, exact.
OpenRouterFetch(resp) ==
    IF resp.status = 0 THEN Err("RequestError")
    ELSE IF ~IsSuccess(resp.status) THEN Err("HTTPStatusError")
    ELSE IF resp.body = "not_json" THEN Err("JSONDecodeError")
    ELSE IF resp.body = "not_number" THEN Err("ValueError")
    ELSE Ok(IF resp.body = "missing" THEN 0 ELSE resp.value, FALSE)

\* Faulty variant of OpenAIFetch: the usage is subtracted in minor units and
\* the remainder is not clamped at 0.
OpenAIFetchMinorUnits(metadata, resp) ==
    IF "total_grant" \notin DOMAIN metadata THEN Err("ValueError")
    ELSE IF resp.status = 0 THEN Err("RequestError")
    ELSE IF ~IsSuccess(resp.status) THEN Ok(metadata["total_grant"], TRUE)
    ELSE IF resp.body = "not_json" THEN Err("JSONDecodeError")
    ELSE IF resp.body = "not_number" THEN Err("ValueError")
    ELSE Ok(metadata["total_grant"] - resp.value, TRUE)

\* OpenAIUsageAdapter.fetch_balance: total_grant minus the reported usage.
OpenAIFetch(metadata, resp) ==
    IF "total_grant" \notin DOMAIN metadata THEN Err("ValueError")
    ELSE LET total_grant == metadata["total_grant"] IN
        IF resp.status = 0 THEN Err("RequestError")
        ELSE IF resp.status = 404 THEN Ok(total_grant, TRUE)
        ELSE IF ~IsSuccess(resp.status) THEN Ok(total_grant, TRUE)
        ELSE IF resp.body = "not_json" THEN Err("JSONDecodeError")
        ELSE IF resp.body = "not_number" THEN Err("ValueError")
        ELSE LET used_amount == (IF resp.body = "missing" THEN 0 ELSE resp.value) \div 100
             IN  Ok(Max(0, total_grant - used_amount), TRUE)

\* Faulty variant of IssuesRequest: the GET goes out before the grant is looked at.
IssuesRequestFirst(adapter) == TRUE

\* Whether fetch_balance issues its GET: the estimate adapter raises first
\* when the metadata has no total_grant.
IssuesRequest(adapter) ==
    adapter.cls = "OpenRouterAdapter" \/ "total_grant" \in DOMAIN adapter.metadata

\* The empty dict that stands in for a metadata of None.
NoMetadata == [f \in {} |-> 0]

\* AdapterFactory._adapters
Adapters == [openrouter |-> "OpenRouterAdapter", openai |-> "OpenAIUsageAdapter"]

UnknownAdapter == [cls |-> "ValueError"]

\* Faulty variant of create_adapter: an identifier that is not registered
\* falls back to the exact adapter.
create_adapter_default(adapter_identifier, api_key, metadata) ==
    [cls |-> IF adapter_identifier \in DOMAIN Adapters THEN Adapters[adapter_identifier]
             ELSE "OpenRouterAdapter",
     api_key |-> api_key,
     metadata |-> IF metadata = Null THEN NoMetadata ELSE metadata]

\* AdapterFactory.create_adapter
create_adapter(adapter_identifier, api_key, metadata) ==
    IF adapter_identifier \in DOMAIN Adapters
    THEN [cls |-> Adapters[adapter_identifier], api_key |-> api_key,
          metadata |-> IF metadata = Null THEN NoMetadata ELSE metadata]
    ELSE UnknownAdapter

\* BalanceAdapter.fetch_balance, dispatched on the adapter's class.
fetch_balance(adapter, resp) ==
    IF adapter.cls = "OpenRouterAdapter" THEN OpenRouterFetch(resp)
    ELSE OpenAIFetch(adapter.metadata, resp)

\* No direct call of the registry or of an adapter has been made.
NoCall ==
    [function |-> "none", adapter_identifier |-> "none", api_key |-> Null,
     metadata |-> Null, adapter |-> Null, resp |-> Null, result |-> Null,
     requests |-> 0]

\* The answers the platform of an adapter can give.
PlatformResponses(adapter) ==
    IF adapter.cls = "OpenRouterAdapter" THEN Responses(Credits) ELSE Responses(Usages)

(***************************************************************************)
(* Jobs of the arq queue (WorkerSettings.functions).                       *)
(***************************************************************************)
CheckJob(key_id) == [function |-> "check_single_key", key_id |-> key_id]

NotifyJob(key_id, balance, threshold, channel, address) ==
    [function |-> "send_notification", key_id |-> key_id, balance |-> balance,
     threshold |-> threshold, channel |-> channel, address |-> address]

\* Faulty variant of Dequeue: taking a job drops the whole queue.
DequeueAll(q, job) == EmptyBag

\* redis_pool.enqueue_job / ctx.enqueue_job: the queue with one more job.
Enqueue(q, job) == q (+) SetToBag({job})

\* A worker taking a job off the queue.
Dequeue(q, job) == q (-) SetToBag({job})

(***************************************************************************)
(* A job slot of an arq worker: the job it runs and the local variables    *)
(* of the coroutine.                                                       *)
(***************************************************************************)
IdleSlot ==
    [pc |-> "idle", function |-> "none", key_id |-> 0,
     loaded_balance |-> Null,   \* last_known_balance as loaded by the session
     adapter |-> Null,
     balance |-> Null,          \* result.balance
     last_checked |-> Null,     \* the value assigned at line 76
     log_timestamp |-> Null,    \* the BalanceLog.timestamp of line 83
     log_id |-> Null,           \* the id the INSERT gave the BalanceLog row
     decrypted |-> FALSE,       \* encryption_service.decrypt was called
     requests |-> 0,            \* network requests issued by this execution
     enqueued |-> 0,            \* jobs this execution put on the queue
     delivery |-> Null]         \* the SMTP session or POST of a notification

\* No execution has ended yet.
NoneDone ==
    [function |-> "none", key_id |-> 0, outcome |-> "none", error |-> "none",
     log_id |-> Null, decrypted |-> FALSE, requests |-> 0, enqueued |-> 0,
     delivery |-> Null]

\* What arq records of an execution that ended: the job, how it ended, and
\* what it did (the history row it committed, its requests, its enqueues).
Ended(slot, outcome, error) ==
    [function |-> slot.function, key_id |-> slot.key_id, outcome |-> outcome,
     error |-> error, log_id |-> slot.log_id, decrypted |-> slot.decrypted,
     requests |-> slot.requests, enqueued |-> slot.enqueued,
     delivery |-> slot.delivery]

\* No check execution has ended yet.
NoOutcomes == [k \in KeyIds |-> [ok |-> 0, failed |-> 0]]

\* The tally with one more ended execution (a not-found return is neither).
Tallied(tally, ended) ==
    IF ended.function = "check_single_key" /\ ended.outcome \in {"ok", "failed"}
    THEN [tally EXCEPT ![ended.key_id][ended.outcome] = @ + 1]
    ELSE tally

\* Faulty variant of Raised: the except block swallows the exception.
RaisedSwallowed(slot, step) == Ended(slot, "ok", step)

\* The coroutine returns: the job is complete.
Returned(slot, outcome) == Ended(slot, outcome, "none")

\* except Exception: session.rollback(); raise.  The rollback discards the
\* session's pending changes; the job is recorded as failed.
Raised(slot, step) == Ended(slot, "failed", step)

IdleSched ==
    [pc |-> "idle", all_keys |-> <<>>, todo |-> <<>>, sent |-> <<>>,
     outcome |-> "none", failed_id |-> 0]

\* The orders in which a SELECT without ORDER BY may return the rows' ids.
Orderings(ids) ==
    {s \in [1..Cardinality(ids) -> ids] : \A x \in ids : \E i \in DOMAIN s : s[i] = x}

\* The slots of a worker are interchangeable: a job starts in the first free one.
FirstFree(w) ==
    /\ workers[w].pc = "idle"
    /\ \A v \in Slots : v < w => workers[v].pc # "idle"

Without(f, x) == [y \in DOMAIN f \ {x} |-> f[y]]

Init ==
    /\ platforms = PLATFORMS
    /\ keys = [k \in {} |-> Null]
    /\ rules = [k \in {} |-> Null]
    /\ logs = {}
    /\ nextKeyId = 1
    /\ nextLogId = 1
    /\ queue = EmptyBag
    /\ workers = [w \in Slots |-> IdleSlot]
    /\ done = NoneDone
    /\ outcomes = NoOutcomes
    /\ sched = IdleSched
    /\ clock = 0
    /\ \E setting \in MasterKeySettings :
        /\ apiKey = ProcessKey(setting, "api")
        /\ workerKey = ProcessKey(setting, "worker")
    /\ issued = 0
    /\ ticks = 0
    /\ api = 0
    /\ call = NoCall

(***************************************************************************)
(* REST handlers and the owner's changes to the tables.                    *)
(***************************************************************************)
\* POST /keys
create_key(user, name, api_key, platform_id, metadata) ==
    /\ nextKeyId \in Creatable
    /\ IF platform_id \notin DOMAIN platforms
       THEN /\ api' = 404
            /\ UNCHANGED <<keys, nextKeyId>>
       ELSE LET encrypted_key == encrypt(apiKey, api_key) IN
            /\ keys' = keys @@ (nextKeyId :>
                   [name |-> name, api_key_encrypted |-> encrypted_key,
                    metadata |-> metadata, last_known_balance |-> Null,
                    last_checked |-> Null, user_id |-> user,
                    platform_id |-> platform_id])
            /\ nextKeyId' = nextKeyId + 1
            /\ api' = 201
    /\ UNCHANGED <<platforms, rules, logs, nextLogId, queue, workers, done, outcomes,
                   sched, clock, fernet, call, issued, ticks>>

\* A notification rule is stored for a credential (at most one per key_id).
CreateRule(key_id, threshold, channel, address) ==
    /\ key_id \in DOMAIN keys
    /\ key_id \notin DOMAIN rules
    /\ rules' = rules @@ (key_id :>
           [threshold_amount |-> threshold, notification_channel |-> channel,
            channel_address |-> address])
    /\ UNCHANGED <<platforms, keys, logs, nextKeyId, nextLogId, queue, workers, done,
                   outcomes, sched, clock, fernet, call, issued, ticks, api>>

\* The owner deletes a credential: its history and its rule go with it.
DeleteKey(key_id) ==
    /\ key_id \in DOMAIN keys
    /\ keys' = Without(keys, key_id)
    /\ logs' = {r \in logs : r.key_id # key_id}
    /\ rules' = Without(rules, key_id)
    /\ UNCHANGED <<platforms, nextKeyId, nextLogId, queue, workers, done, outcomes,
                   sched, clock, fernet, call, issued, ticks, api>>

\* A platform row is removed from the catalog.
RemovePlatform(platform_id) ==
    /\ platform_id \in DOMAIN platforms
    /\ platforms' = Without(platforms, platform_id)
    /\ UNCHANGED <<keys, rules, logs, nextKeyId, nextLogId, queue, workers, done,
                   outcomes, sched, clock, fernet, call, issued, ticks, api>>

\* Faulty variant of Triggered: the owner of the credential is not looked at.
TriggeredForAnyone(user, key_id, redis_ok) ==
    IF key_id \notin DOMAIN keys THEN [status |-> 404, jobs |-> 0]
    ELSE IF redis_ok THEN [status |-> 202, jobs |-> 1]
    ELSE [status |-> 500, jobs |-> 0]

\* The body of trigger_check: the status it answers with and the number of
\* check jobs it enqueues, given whether create_pool and enqueue_job succeed.
Triggered(user, key_id, redis_ok) ==
    IF key_id \notin DOMAIN keys \/ keys[key_id].user_id # user
    THEN [status |-> 404, jobs |-> 0]
    ELSE IF redis_ok THEN [status |-> 202, jobs |-> 1]
    ELSE [status |-> 500, jobs |-> 0]

\* POST /keys/{key_id}/trigger-check
trigger_check(user, key_id) ==
    /\ issued < MaxJobs
    /\ \E redis_ok \in BOOLEAN :
        LET answer == Triggered(user, key_id, redis_ok) IN
        /\ api' = answer.status
        /\ queue' = IF answer.jobs = 1 THEN Enqueue(queue, CheckJob(key_id)) ELSE queue
        /\ issued' = issued + answer.jobs
    /\ UNCHANGED <<tables, workers, done, outcomes, sched, clock, fernet, call, ticks>>

\* POST /keys/{key_id}/trigger-check, with the request kept for inspection.
trigger_check_request(user, key_id) ==
    /\ issued < MaxJobs
    /\ \E redis_ok \in BOOLEAN :
        LET answer == Triggered(user, key_id, redis_ok) IN
        /\ api' = answer.status
        /\ queue' = IF answer.jobs = 1 THEN Enqueue(queue, CheckJob(key_id)) ELSE queue
        /\ issued' = issued + answer.jobs
        /\ call' = [function |-> "trigger_check", user |-> user, key_id |-> key_id,
                    status |-> answer.status]
    /\ UNCHANGED <<tables, workers, done, outcomes, sched, clock, fernet, ticks>>

(***************************************************************************)
(* schedule_all_key_checks: the APScheduler job (one instance at a time).  *)
(***************************************************************************)
\* all_keys = select(ManagedApiKey).all(); redis_pool = await create_pool(...)
SchedTick ==
    /\ sched.pc = "idle"
    /\ ticks < MaxTicks
    /\ issued + Cardinality(DOMAIN keys) <= MaxJobs
    /\ ticks' = ticks + 1
    /\ \E order \in Orderings(DOMAIN keys), pool_ok \in BOOLEAN :
        sched' = IF pool_ok
                 THEN [IdleSched EXCEPT !.pc = "loop", !.all_keys = order, !.todo = order]
                 ELSE [IdleSched EXCEPT !.all_keys = order, !.outcome = "failed"]
    /\ UNCHANGED <<tables, queue, workers, done, outcomes, clock, fernet, call, issued, api>>

\* The scheduler after the enqueue_job of the loop raised: the exception
\* leaves the for loop and the function.
LoopRaised(sc) ==
    [sc EXCEPT !.pc = "idle", !.outcome = "failed", !.failed_id = Head(sc.todo),
               !.todo = <<>>]

\* Faulty variant of SchedEnqueue: every id is enqueued twice.
SchedEnqueueTwice ==
    /\ sched.pc = "loop"
    /\ sched.todo # <<>>
    /\ queue' = Enqueue(Enqueue(queue, CheckJob(Head(sched.todo))), CheckJob(Head(sched.todo)))
    /\ issued' = issued + 1
    /\ sched' = [sched EXCEPT !.todo = Tail(sched.todo),
                              !.sent = Append(sched.sent, Head(sched.todo))]
    /\ UNCHANGED <<tables, workers, done, outcomes, clock, fernet, call, ticks, api>>

\* for key in all_keys: await redis_pool.enqueue_job("check_single_key", key_id=key.id)
SchedEnqueue ==
    /\ sched.pc = "loop"
    /\ sched.todo # <<>>
    /\ \E redis_ok \in BOOLEAN :
        IF redis_ok
        THEN /\ queue' = Enqueue(queue, CheckJob(Head(sched.todo)))
             /\ issued' = issued + 1
             /\ sched' = [sched EXCEPT !.todo = Tail(sched.todo),
                                       !.sent = Append(sched.sent, Head(sched.todo))]
        ELSE /\ sched' = LoopRaised(sched)
             /\ UNCHANGED <<queue, issued>>
    /\ UNCHANGED <<tables, workers, done, outcomes, clock, fernet, call, ticks, api>>

\* await redis_pool.close(); print(...)
SchedClose ==
    /\ sched.pc = "loop"
    /\ sched.todo = <<>>
    /\ sched' = [sched EXCEPT !.pc = "idle", !.outcome = "ok"]
    /\ UNCHANGED <<tables, queue, workers, done, outcomes, clock, fernet, call, issued, ticks, api>>

(***************************************************************************)
(* check_single_key, one action per stretch between two points where       *)
(* another process can act on the database or the queue.  Each stretch     *)
(* leaves the coroutine running (Continue) or ends the job (End).          *)
(***************************************************************************)
Continue(slot) == [running |-> TRUE, slot |-> slot, ended |-> NoneDone]
End(ended) == [running |-> FALSE, slot |-> IdleSlot, ended |-> ended]

\* Faulty variant of Loaded: the key is decrypted before the platform is looked up.
LoadedEager(job) ==
    LET key_id == job.key_id
        fresh == [IdleSlot EXCEPT !.function = job.function, !.key_id = key_id]
        tried == [fresh EXCEPT !.decrypted = TRUE]
    IN  IF key_id \notin DOMAIN keys THEN End(Returned(fresh, "not_found"))
        ELSE LET api_key_record == keys[key_id]
                 decrypted_key == decrypt(workerKey, api_key_record.api_key_encrypted)
             IN
        IF decrypted_key = DecryptionError THEN End(Raised(tried, "decrypt"))
        ELSE IF api_key_record.platform_id \notin DOMAIN platforms
        THEN End(Returned(tried, "not_found"))
        ELSE Continue([tried EXCEPT !.pc = "fetch",
                           !.adapter = create_adapter(platforms[api_key_record.platform_id],
                                                      decrypted_key, api_key_record.metadata),
                           !.loaded_balance = api_key_record.last_known_balance])

\* Lines 41-69: load the credential and its platform, decrypt, build the adapter.
Loaded(job) ==
    LET key_id == job.key_id
        fresh == [IdleSlot EXCEPT !.function = job.function, !.key_id = key_id]
    IN  IF key_id \notin DOMAIN keys THEN End(Returned(fresh, "not_found"))
        ELSE LET api_key_record == keys[key_id] IN
        IF api_key_record.platform_id \notin DOMAIN platforms
        THEN End(Returned(fresh, "not_found"))
        ELSE LET decrypted_key == decrypt(workerKey, api_key_record.api_key_encrypted)
                 tried == [fresh EXCEPT !.decrypted = TRUE]
             IN
        IF decrypted_key = DecryptionError THEN End(Raised(tried, "decrypt"))
        ELSE LET adapter == create_adapter(platforms[api_key_record.platform_id],
                                           decrypted_key, api_key_record.metadata)
             IN
        IF adapter = UnknownAdapter THEN End(Raised(tried, "adapter"))
        ELSE Continue([tried EXCEPT !.pc = "fetch", !.adapter = adapter,
                           !.loaded_balance = api_key_record.last_known_balance])

CheckStart(w) ==
    /\ FirstFree(w)
    /\ \E job \in BagToSet(queue) :
        /\ job.function = "check_single_key"
        /\ queue' = Dequeue(queue, job)
        /\ workers' = [workers EXCEPT ![w] = Loaded(job).slot]
        /\ done' = IF Loaded(job).running THEN done ELSE Loaded(job).ended
        /\ outcomes' = Tallied(outcomes, Loaded(job).ended)
    /\ UNCHANGED <<tables, sched, clock, fernet, call, issued, ticks, api>>

\* Lines 72-85: result = await adapter.fetch_balance(); the two assignments
\* and the BalanceLog are pending in the session, each stamped by utcnow().
Fetched(slot, result, now) ==
    LET asked == [slot EXCEPT !.requests = IF IssuesRequest(slot.adapter) THEN 1 ELSE 0]
    IN  IF ~result.ok THEN End(Raised(asked, "fetch"))
        ELSE Continue([asked EXCEPT !.pc = "commit", !.balance = Num(result.balance),
                                    !.last_checked = Num(now + 1),
                                    !.log_timestamp = Num(now + 2)])

\* Faulty variant of CheckFetch: last_checked is stamped and committed before
\* the fetch, so that a failed fetch leaves it behind.
CheckFetchStamping(w) ==
    /\ workers[w].pc = "fetch"
    /\ \E resp \in PlatformResponses(workers[w].adapter) :
        LET next == Fetched(workers[w], fetch_balance(workers[w].adapter, resp), clock)
        IN  /\ workers' = [workers EXCEPT ![w] = next.slot]
            /\ done' = IF next.running THEN done ELSE next.ended
            /\ outcomes' = Tallied(outcomes, next.ended)
            /\ clock' = clock + 2
    /\ keys' = [k \in DOMAIN keys |->
                   IF k = workers[w].key_id
                   THEN [keys[k] EXCEPT !.last_checked = Num(clock + 1)]
                   ELSE keys[k]]
    /\ UNCHANGED <<platforms, rules, logs, nextKeyId, nextLogId, queue, sched, fernet, call,
                   issued, ticks, api>>

CheckFetch(w) ==
    /\ workers[w].pc = "fetch"
    /\ \E resp \in PlatformResponses(workers[w].adapter) :
        LET next == Fetched(workers[w], fetch_balance(workers[w].adapter, resp), clock)
        IN  /\ workers' = [workers EXCEPT ![w] = next.slot]
            /\ done' = IF next.running THEN done ELSE next.ended
            /\ outcomes' = Tallied(outcomes, next.ended)
            /\ clock' = IF next.running THEN clock + 2 ELSE clock
    /\ UNCHANGED <<tables, queue, sched, fernet, call, issued, ticks, api>>

\* Faulty variant of UpdatedRow: the UPDATE also resets the metadata.
UpdatedRowAndMetadata(row, slot) ==
    [row EXCEPT !.last_known_balance = slot.balance,
                !.last_checked = slot.last_checked,
                !.metadata = NoMetadata]

\* Faulty variant of UpdatedRow: a row that a check has already stamped is
\* left as it is (insert-once instead of overwrite).
UpdatedRowOnce(row, slot) ==
    IF row.last_checked # Null THEN row
    ELSE [row EXCEPT !.last_known_balance = slot.balance,
                     !.last_checked = slot.last_checked]

\* The UPDATE of the flush: the unit of work writes the attributes whose
\* value differs from the one the session loaded.
UpdatedRow(row, slot) ==
    [row EXCEPT !.last_known_balance =
                    IF slot.balance = slot.loaded_balance THEN @ ELSE slot.balance,
                !.last_checked = slot.last_checked]

\* Faulty variant of InsertedLog: the row is written over the first row of
\* the table instead of being appended.
InsertedLogOverFirst(slot, id) ==
    [id |-> 1, key_id |-> slot.key_id, balance |-> slot.balance.val,
     timestamp |-> slot.log_timestamp.val]

\* Faulty variant of InsertedLog: the history row misses the fetched balance.
InsertedLogBlank(slot, id) ==
    [id |-> id, key_id |-> slot.key_id, balance |-> 0,
     timestamp |-> slot.log_timestamp.val]

\* The INSERT of the flush.
InsertedLog(slot, id) ==
    [id |-> id, key_id |-> slot.key_id, balance |-> slot.balance.val,
     timestamp |-> slot.log_timestamp.val]

\* Faulty variant of CheckCommit: the UPDATE and the INSERT are committed one
\* by one, and a failure between the two leaves the UPDATE behind.
CheckCommitTorn(w) ==
    /\ workers[w].pc = "commit"
    /\ \E db_ok \in BOOLEAN :
        LET slot == workers[w] IN
        IF slot.key_id \notin DOMAIN keys
        THEN /\ workers' = [workers EXCEPT ![w] = IdleSlot]
             /\ done' = Raised(slot, "persist")
             /\ outcomes' = Tallied(outcomes, done')
             /\ UNCHANGED <<keys, logs, nextLogId>>
        ELSE IF db_ok
        THEN /\ keys' = [keys EXCEPT ![slot.key_id] = UpdatedRow(@, slot)]
             /\ logs' = logs \cup {InsertedLog(slot, nextLogId)}
             /\ nextLogId' = nextLogId + 1
             /\ workers' = [workers EXCEPT ![w] =
                               [slot EXCEPT !.pc = "notify", !.log_id = Num(nextLogId)]]
             /\ UNCHANGED <<done, outcomes>>
        ELSE /\ keys' = [keys EXCEPT ![slot.key_id] = UpdatedRow(@, slot)]
             /\ workers' = [workers EXCEPT ![w] = IdleSlot]
             /\ done' = Raised(slot, "persist")
             /\ outcomes' = Tallied(outcomes, done')
             /\ UNCHANGED <<logs, nextLogId>>
    /\ UNCHANGED <<platforms, rules, nextKeyId, queue, sched, clock, fernet, call, issued,
                   ticks, api>>

\* Faulty variant of CheckCommit: the notification of a balance at or under
\* the threshold is put on the queue before the commit, whether or not the
\* commit then goes through.
CheckCommitNotifyingFirst(w) ==
    /\ workers[w].pc = "commit"
    /\ \E db_ok \in BOOLEAN :
        LET slot == workers[w] IN
        /\ queue' = IF /\ slot.key_id \in DOMAIN rules
                       /\ slot.balance.val <= rules[slot.key_id].threshold_amount
                    THEN queue (+) SetToBag({NotifyJob(slot.key_id, slot.balance.val,
                             rules[slot.key_id].threshold_amount,
                             rules[slot.key_id].notification_channel,
                             rules[slot.key_id].channel_address)})
                    ELSE queue
        /\ IF db_ok /\ slot.key_id \in DOMAIN keys
           THEN /\ keys' = [keys EXCEPT ![slot.key_id] = UpdatedRow(@, slot)]
                /\ logs' = logs \cup {InsertedLog(slot, nextLogId)}
                /\ nextLogId' = nextLogId + 1
                /\ workers' = [workers EXCEPT ![w] =
                                  [slot EXCEPT !.pc = "notify", !.log_id = Num(nextLogId)]]
                /\ UNCHANGED <<done, outcomes>>
           ELSE /\ workers' = [workers EXCEPT ![w] = IdleSlot]
                /\ done' = Raised(slot, "persist")
                /\ outcomes' = Tallied(outcomes, done')
                /\ UNCHANGED <<keys, logs, nextLogId>>
    /\ UNCHANGED <<platforms, rules, nextKeyId, sched, clock, fernet, call, issued,
                   ticks, api>>

\* Faulty variant of CheckCommit: an UPDATE that matches no row is passed
\* over and the INSERT is committed all the same.
CheckCommitOrphan(w) ==
    /\ workers[w].pc = "commit"
    /\ \E db_ok \in BOOLEAN :
        LET slot == workers[w] IN
        IF db_ok
        THEN /\ keys' = [k \in DOMAIN keys |->
                            IF k = slot.key_id THEN UpdatedRow(keys[k], slot) ELSE keys[k]]
             /\ logs' = logs \cup {InsertedLog(slot, nextLogId)}
             /\ nextLogId' = nextLogId + 1
             /\ workers' = [workers EXCEPT ![w] =
                               [slot EXCEPT !.pc = "notify", !.log_id = Num(nextLogId)]]
             /\ UNCHANGED <<done, outcomes>>
        ELSE /\ workers' = [workers EXCEPT ![w] = IdleSlot]
             /\ done' = Raised(slot, "persist")
             /\ outcomes' = Tallied(outcomes, done')
             /\ UNCHANGED <<keys, logs, nextLogId>>
    /\ UNCHANGED <<platforms, rules, nextKeyId, queue, sched, clock, fernet, call, issued,
                   ticks, api>>

\* Line 87: session.commit().  The UPDATE and the INSERT are one transaction;
\* an UPDATE that matches no row (the credential was deleted) or a database
\* error raises, and the except block rolls the transaction back.
CheckCommit(w) ==
    /\ workers[w].pc = "commit"
    /\ \E db_ok \in BOOLEAN :
        LET slot == workers[w] IN
        IF db_ok /\ slot.key_id \in DOMAIN keys
        THEN /\ keys' = [keys EXCEPT ![slot.key_id] = UpdatedRow(@, slot)]
             /\ logs' = logs \cup {InsertedLog(slot, nextLogId)}
             /\ nextLogId' = nextLogId + 1
             /\ workers' = [workers EXCEPT ![w] =
                               [slot EXCEPT !.pc = "notify", !.log_id = Num(nextLogId)]]
             /\ UNCHANGED <<done, outcomes>>
        ELSE /\ workers' = [workers EXCEPT ![w] = IdleSlot]
             /\ done' = Raised(slot, "persist")
             /\ outcomes' = Tallied(outcomes, done')
             /\ UNCHANGED <<keys, logs, nextLogId>>
    /\ UNCHANGED <<platforms, rules, nextKeyId, queue, sched, clock, fernet, call, issued,
                   ticks, api>>

\* Faulty variant of ShouldNotify: a balance equal to the threshold is passed over.
ShouldNotifyStrict(notification_rule, balance) ==
    notification_rule # Null /\ balance < notification_rule.threshold_amount

\* Line 94: the threshold test on the freshly fetched balance.
ShouldNotify(notification_rule, balance) ==
    notification_rule # Null /\ balance <= notification_rule.threshold_amount

\* Lines 96-103: the arguments of the send_notification job.
Notification(key_id, balance, notification_rule) ==
    NotifyJob(key_id, balance, notification_rule.threshold_amount,
              notification_rule.notification_channel,
              notification_rule.channel_address)

\* Faulty variant of CheckNotify: the alert fires on crossing only, when the
\* balance the session had loaded was still above the threshold.
CheckNotifyOnCrossing(w) ==
    /\ workers[w].pc = "notify"
    /\ workers' = [workers EXCEPT ![w] = IdleSlot]
    /\ \E db_ok \in BOOLEAN, redis_ok \in BOOLEAN :
        LET slot == workers[w]
            notification_rule ==
                IF slot.key_id \in DOMAIN rules THEN rules[slot.key_id] ELSE Null
            crossed == \/ slot.loaded_balance = Null
                       \/ slot.loaded_balance.val > notification_rule.threshold_amount
        IN  IF ~db_ok
            THEN /\ done' = Raised(slot, "rule_query")
                 /\ UNCHANGED queue
            ELSE IF ~(ShouldNotify(notification_rule, slot.balance.val) /\ crossed)
            THEN /\ done' = Returned(slot, "ok")
                 /\ UNCHANGED queue
            ELSE IF redis_ok
            THEN /\ queue' = Enqueue(queue, Notification(slot.key_id, slot.balance.val,
                                                         notification_rule))
                 /\ done' = Returned([slot EXCEPT !.enqueued = @ + 1], "ok")
            ELSE /\ done' = Raised(slot, "enqueue")
                 /\ UNCHANGED queue
    /\ outcomes' = Tallied(outcomes, done')
    /\ UNCHANGED <<tables, sched, clock, fernet, call, issued, ticks, api>>

\* Lines 90-105: read the rule, enqueue the notification when it is due.
CheckNotify(w) ==
    /\ workers[w].pc = "notify"
    /\ workers' = [workers EXCEPT ![w] = IdleSlot]
    /\ \E db_ok \in BOOLEAN, redis_ok \in BOOLEAN :
        LET slot == workers[w]
            notification_rule ==
                IF slot.key_id \in DOMAIN rules THEN rules[slot.key_id] ELSE Null
        IN  IF ~db_ok
            THEN /\ done' = Raised(slot, "rule_query")
                 /\ UNCHANGED queue
            ELSE IF ~ShouldNotify(notification_rule, slot.balance.val)
            THEN /\ done' = Returned(slot, "ok")
                 /\ UNCHANGED queue
            ELSE IF redis_ok
            THEN /\ queue' = Enqueue(queue, Notification(slot.key_id, slot.balance.val,
                                                         notification_rule))
                 /\ done' = Returned([slot EXCEPT !.enqueued = @ + 1], "ok")
            ELSE /\ done' = Raised(slot, "enqueue")
                 /\ UNCHANGED queue
    /\ outcomes' = Tallied(outcomes, done')
    /\ UNCHANGED <<tables, sched, clock, fernet, call, issued, ticks, api>>

(***************************************************************************)
(* send_notification: load the credential for its name, then one delivery  *)
(* on the job's channel.                                                   *)
(***************************************************************************)
\* How far the SMTP session gets: SMTP(), starttls, login, send_message.
SmtpOutcomes == {"sent", "connect", "starttls", "login", "send_message"}
\* The answer to the POST: 0 stands for a transport failure or the timeout.
WebhookStatuses == {0, 200, 204, 500}

\* Faulty variant of Notified: a failed delivery is printed and the job returns.
NotifiedQuietly(job, smtp, status) ==
    LET fresh == [IdleSlot EXCEPT !.function = job.function, !.key_id = job.key_id]
    IN  IF job.key_id \notin DOMAIN keys THEN Returned(fresh, "not_found")
        ELSE IF job.channel = "email"
        THEN Returned([fresh EXCEPT !.requests = 1,
                           !.delivery = [transport |-> "smtp", to |-> job.address,
                                     delivered |-> smtp = "sent"]], "ok")
        ELSE IF job.channel = "webhook"
        THEN Returned([fresh EXCEPT !.requests = 1,
                           !.delivery = [transport |-> "post", to |-> job.address,
                                     delivered |-> IsSuccess(status)]], "ok")
        ELSE Returned(fresh, "ok")

\* Faulty variant of Notified: a channel that is not known is sent as a webhook.
NotifiedByDefault(job, smtp, status) ==
    LET fresh == [IdleSlot EXCEPT !.function = job.function, !.key_id = job.key_id]
        mailed == [fresh EXCEPT !.requests = 1,
                       !.delivery = [transport |-> "smtp", to |-> job.address,
                                     delivered |-> smtp = "sent"]]
        posted == [fresh EXCEPT !.requests = 1,
                       !.delivery = [transport |-> "post", to |-> job.address,
                                     delivered |-> IsSuccess(status)]]
    IN  IF job.key_id \notin DOMAIN keys THEN Returned(fresh, "not_found")
        ELSE IF job.channel = "email"
        THEN IF smtp = "sent" THEN Returned(mailed, "ok") ELSE Raised(mailed, "delivery")
        ELSE IF IsSuccess(status) THEN Returned(posted, "ok")
        ELSE Raised(posted, "delivery")

\* Lines 132-205: the body of send_notification on a job, given how the SMTP
\* session and the POST would go.
Notified(job, smtp, status) ==
    LET fresh == [IdleSlot EXCEPT !.function = job.function, !.key_id = job.key_id]
        mailed == [fresh EXCEPT !.requests = 1,
                       !.delivery = [transport |-> "smtp", to |-> job.address,
                                     delivered |-> smtp = "sent"]]
        posted == [fresh EXCEPT !.requests = 1,
                       !.delivery = [transport |-> "post", to |-> job.address,
                                     delivered |-> IsSuccess(status)]]
    IN  IF job.key_id \notin DOMAIN keys THEN Returned(fresh, "not_found")
        ELSE IF job.channel = "email"
        THEN IF smtp = "sent" THEN Returned(mailed, "ok") ELSE Raised(mailed, "delivery")
        ELSE IF job.channel = "webhook"
        THEN IF IsSuccess(status) THEN Returned(posted, "ok")
             ELSE Raised(posted, "delivery")
        ELSE Returned(fresh, "ok")

send_notification(w) ==
    /\ FirstFree(w)
    /\ \E job \in BagToSet(queue), smtp \in SmtpOutcomes, status \in WebhookStatuses :
        /\ job.function = "send_notification"
        /\ queue' = Dequeue(queue, job)
        /\ done' = Notified(job, smtp, status)
    /\ UNCHANGED <<tables, workers, outcomes, sched, clock, fernet, call, issued, ticks, api>>

Next ==
    \/ \E user \in Creators, name \in Names, api_key \in Secrets,
          platform_id \in PlatformIds, metadata \in Metadatas :
          create_key(user, name, api_key, platform_id, metadata)
    \/ \E key_id \in KeyIds, threshold \in Thresholds, channel \in Channels,
          address \in Addresses : CreateRule(key_id, threshold, channel, address)
    \/ \E key_id \in KeyIds : DeleteKey(key_id)
    \/ \E key_id \in DOMAIN keys : RemovePlatform(keys[key_id].platform_id)
    \/ \E user \in Users, key_id \in KeyIds : trigger_check(user, key_id)
    \/ \E w \in Slots : CheckStart(w)
    \/ \E w \in Slots : CheckFetch(w)
    \/ \E w \in Slots : CheckCommit(w)
    \/ \E w \in Slots : CheckNotify(w)

(***************************************************************************)
(* Spec: one credential from its registration on, checked on the owner's   *)
(* request by two overlapping jobs.                                        *)
(***************************************************************************)
Spec == Init /\ [][Next]_vars

(***************************************************************************)
(* SpecFanout: the periodic tick over a database that holds several        *)
(* credentials, one per platform, each with a rule, and the jobs it fans   *)
(* out.                                                                    *)
(***************************************************************************)
StoredKey(platform_id) ==
    [name |-> "prod", api_key_encrypted |-> encrypt(apiKey, "sk-live"),
     metadata |-> [total_grant |-> 2], last_known_balance |-> Null,
     last_checked |-> Null, user_id |-> 1, platform_id |-> platform_id]

StoredRule(channel) ==
    [threshold_amount |-> 1, notification_channel |-> channel, channel_address |-> "ops"]

InitFanout ==
    /\ \E setting \in MasterKeySettings :
        /\ apiKey = ProcessKey(setting, "api")
        /\ workerKey = ProcessKey(setting, "worker")
    /\ platforms = PLATFORMS
    /\ keys = [k \in KeyIds |-> StoredKey(k)]
    /\ rules = [k \in KeyIds |-> StoredRule(IF k = 1 THEN "email" ELSE "sms")]
    /\ logs = {}
    /\ nextKeyId = Cardinality(KeyIds) + 1
    /\ nextLogId = 1
    /\ queue = EmptyBag
    /\ workers = [w \in Slots |-> IdleSlot]
    /\ done = NoneDone
    /\ outcomes = NoOutcomes
    /\ sched = IdleSched
    /\ clock = 0
    /\ issued = 0
    /\ ticks = 0
    /\ api = 0
    /\ call = NoCall

NextFanout ==
    \/ \E key_id \in KeyIds : DeleteKey(key_id)
    \/ SchedTick
    \/ SchedEnqueue
    \/ SchedClose
    \/ \E w \in Slots : CheckStart(w)
    \/ \E w \in Slots : CheckFetch(w)
    \/ \E w \in Slots : CheckCommit(w)
    \/ \E w \in Slots : CheckNotify(w)
    \/ \E w \in Slots : send_notification(w)

SpecFanout == InitFanout /\ [][NextFanout]_vars

(***************************************************************************)
(* SpecRace: a credential that an earlier check left with balance 1, and   *)
(* the checks its owner requests next, which may overlap.                  *)
(***************************************************************************)
CheckedKey ==
    [StoredKey(1) EXCEPT !.last_known_balance = Num(1), !.last_checked = Num(1)]

InitRace ==
    /\ apiKey = ProcessKey("K1", "api")
    /\ workerKey = ProcessKey("K1", "worker")
    /\ platforms = PLATFORMS
    /\ keys = (1 :> CheckedKey)
    /\ rules = [k \in {} |-> Null]
    /\ logs = {[id |-> 1, key_id |-> 1, balance |-> 1, timestamp |-> 2]}
    /\ nextKeyId = 2
    /\ nextLogId = 2
    /\ queue = EmptyBag
    /\ workers = [w \in Slots |-> IdleSlot]
    /\ done = NoneDone
    /\ outcomes = [NoOutcomes EXCEPT ![1].ok = 1]
    /\ sched = IdleSched
    /\ clock = 2
    /\ issued = 0
    /\ ticks = 0
    /\ api = 0
    /\ call = NoCall

NextRace ==
    \/ \E user \in Users, key_id \in KeyIds : trigger_check(user, key_id)
    \/ \E w \in Slots : CheckStart(w)
    \/ \E w \in Slots : CheckFetch(w)
    \/ \E w \in Slots : CheckCommit(w)
    \/ \E w \in Slots : CheckNotify(w)

SpecRace == InitRace /\ [][NextRace]_vars

(***************************************************************************)
(* SpecNotify: send_notification on the jobs a queue can hold, for a       *)
(* stored credential (id 1) and for one that is gone (id 2), on every      *)
(* channel.                                                                *)
(***************************************************************************)
NotifyJobs ==
    {NotifyJob(key_id, balance, threshold, channel, address) :
        key_id \in KeyIds, balance \in Credits, threshold \in Thresholds,
        channel \in Channels, address \in Addresses}

InitNotify ==
    /\ \E setting \in MasterKeySettings :
        /\ apiKey = ProcessKey(setting, "api")
        /\ workerKey = ProcessKey(setting, "worker")
    /\ platforms = PLATFORMS
    /\ keys = (1 :> StoredKey(1))
    /\ rules = (1 :> StoredRule("email"))
    /\ logs = {}
    /\ nextKeyId = 3
    /\ nextLogId = 1
    /\ \E jobs \in SUBSET NotifyJobs :
        /\ Cardinality(jobs) \in 1..2
        /\ queue = SetToBag(jobs)
    /\ workers = [w \in Slots |-> IdleSlot]
    /\ done = NoneDone
    /\ outcomes = NoOutcomes
    /\ sched = IdleSched
    /\ clock = 0
    /\ issued = 0
    /\ ticks = 0
    /\ api = 0
    /\ call = NoCall

NextNotify ==
    \E w \in Slots : send_notification(w)

SpecNotify == InitNotify /\ [][NextNotify]_vars

(***************************************************************************)
(* SpecAdapter: the registry and the adapters called directly, on every    *)
(* identifier, metadata and answer of the platform below.                  *)
(***************************************************************************)
\* The registered identifiers, one that is not, and the empty string.
AdapterIdentifiers == {"openrouter", "openai", "anthropic", ""}
\* None, the empty dict, and two grants.
AdapterMetadatas == {Null, NoMetadata, [total_grant |-> 100], [total_grant |-> 20]}
\* Transport failure, two success codes, not found, server error.
AdapterStatuses == {0, 200, 201, 404, 500}
\* What the body holds under the field read: a number, nothing, something
\* that is not a number, or the body is not JSON at all.
AdapterBodies == {"number", "missing", "not_number", "not_json"}
\* The numbers a body reports (credits, or total_usage in minor units).
Reported == {0, 3000, 20000}

\* The answers of the platform: a transport failure has no body, and only
\* a number has a value.
AdapterResponses ==
    {r \in [status : AdapterStatuses, body : AdapterBodies, value : Reported] :
        /\ r.body # "number" => r.value = 0
        /\ r.status = 0 => r.body = "not_json"}

InitAdapter ==
    /\ platforms = PLATFORMS
    /\ keys = <<>>
    /\ rules = <<>>
    /\ logs = {}
    /\ nextKeyId = 1
    /\ nextLogId = 1
    /\ queue = EmptyBag
    /\ workers = [w \in Slots |-> IdleSlot]
    /\ done = NoneDone
    /\ outcomes = NoOutcomes
    /\ sched = IdleSched
    /\ clock = 0
    /\ apiKey = ProcessKey("K1", "api")
    /\ workerKey = ProcessKey("K1", "worker")
    /\ issued = 0
    /\ ticks = 0
    /\ api = 0
    /\ call = NoCall

\* AdapterFactory.create_adapter(adapter_identifier, api_key, metadata)
Resolve ==
    /\ \E adapter_identifier \in AdapterIdentifiers, api_key \in Secrets,
          metadata \in AdapterMetadatas :
        call' = [NoCall EXCEPT !.function = "create_adapter",
                               !.adapter_identifier = adapter_identifier,
                               !.api_key = api_key,
                               !.metadata = metadata,
                               !.adapter = create_adapter(adapter_identifier, api_key,
                                                          metadata)]
    /\ UNCHANGED <<tables, queue, workers, done, outcomes, sched, clock, fernet, issued,
                   ticks, api>>

\* adapter.fetch_balance() on the adapter resolved last; the platform's
\* answer is consumed only when the request is issued.
FetchBalance ==
    /\ call.function = "create_adapter"
    /\ call.adapter # UnknownAdapter
    /\ \E resp \in AdapterResponses :
        /\ ~IssuesRequest(call.adapter) => resp = CHOOSE r \in AdapterResponses : TRUE
        /\ call' = [call EXCEPT !.function = "fetch_balance",
                                !.resp = IF IssuesRequest(call.adapter) THEN resp ELSE Null,
                                !.result = fetch_balance(call.adapter, resp),
                                !.requests = IF IssuesRequest(call.adapter) THEN 1 ELSE 0]
    /\ UNCHANGED <<tables, queue, workers, done, outcomes, sched, clock, fernet, issued,
                   ticks, api>>

NextAdapter ==
    \/ Resolve
    \/ FetchBalance

SpecAdapter == InitAdapter /\ [][NextAdapter]_vars

(***************************************************************************)
(* SpecTrigger: manual triggers by two users on a credential of each and   *)
(* on an id that is not stored, and the check jobs they enqueue.           *)
(***************************************************************************)
\* The ids a trigger request can name: the stored ones and one that is not.
RequestIds == {1, 2, 3}

InitTrigger ==
    /\ apiKey = ProcessKey("K1", "api")
    /\ workerKey = ProcessKey("K1", "worker")
    /\ platforms = PLATFORMS
    /\ keys = [k \in KeyIds |-> [StoredKey(k) EXCEPT !.user_id = k]]
    /\ rules = <<>>
    /\ logs = {}
    /\ nextKeyId = Cardinality(KeyIds) + 1
    /\ nextLogId = 1
    /\ queue = EmptyBag
    /\ workers = [w \in Slots |-> IdleSlot]
    /\ done = NoneDone
    /\ outcomes = NoOutcomes
    /\ sched = IdleSched
    /\ clock = 0
    /\ issued = 0
    /\ ticks = 0
    /\ api = 0
    /\ call = NoCall

NextTrigger ==
    \/ \E user \in Users, key_id \in RequestIds : trigger_check_request(user, key_id)
    \/ \E w \in Slots : CheckStart(w)
    \/ \E w \in Slots : CheckFetch(w)
    \/ \E w \in Slots : CheckCommit(w)
    \/ \E w \in Slots : CheckNotify(w)

SpecTrigger == InitTrigger /\ [][NextTrigger]_vars

(***************************************************************************)
(* SpecWorker: one stored credential with an e-mail rule, checks requested *)
(* through the API, and the arq worker of WorkerSettings running them      *)
(* under a fair schedule.  WorkerSettings names only the two functions and *)
(* the Redis settings; a job that raises is finished as failed and is not  *)
(* put back on the queue.                                                  *)
(***************************************************************************)
InitWorker ==
    /\ apiKey = ProcessKey("K1", "api")
    /\ workerKey = ProcessKey("K1", "worker")
    /\ platforms = PLATFORMS
    /\ keys = (1 :> StoredKey(1))
    /\ rules = (1 :> StoredRule("email"))
    /\ logs = {}
    /\ nextKeyId = 2
    /\ nextLogId = 1
    /\ queue = EmptyBag
    /\ workers = [w \in Slots |-> IdleSlot]
    /\ done = NoneDone
    /\ outcomes = NoOutcomes
    /\ sched = IdleSched
    /\ clock = 0
    /\ issued = 0
    /\ ticks = 0
    /\ api = 0
    /\ call = NoCall

NextWorker ==
    \/ \E user \in Users, key_id \in KeyIds : trigger_check(user, key_id)
    \/ \E w \in Slots : CheckStart(w)
    \/ \E w \in Slots : CheckFetch(w)
    \/ \E w \in Slots : CheckCommit(w)
    \/ \E w \in Slots : CheckNotify(w)

\* The steps of a check in which the platform, the database and Redis answer.
FetchSucceeds(w) == CheckFetch(w) /\ workers'[w].pc = "commit"
CommitSucceeds(w) == CheckCommit(w) /\ workers'[w].pc = "notify"
NotifySucceeds(w) == CheckNotify(w) /\ done'.outcome = "ok"

\* A check job waits on the queue and slot w is the one that takes it: what
\* enables CheckStart(w).
Waiting(w) ==
    /\ FirstFree(w)
    /\ \E job \in BagToSet(queue) : job.function = "check_single_key"

\* The worker takes every job that waits (weak fairness of CheckStart, its
\* enabling condition written out) and carries every execution on, and no
\* collaborator fails whenever it is asked.
FairWorker ==
    \A w \in Slots :
        /\ []<>~Waiting(w) \/ []<><<CheckStart(w)>>_vars
        /\ WF_vars(CheckFetch(w))
        /\ WF_vars(CheckCommit(w))
        /\ WF_vars(CheckNotify(w))
        /\ SF_vars(FetchSucceeds(w))
        /\ SF_vars(CommitSucceeds(w))
        /\ SF_vars(NotifySucceeds(w))

SpecWorker == InitWorker /\ [][NextWorker]_vars /\ FairWorker

(***************************************************************************)
(* SpecCrypto: EncryptionService called directly: a str is encrypted under *)
(* the key of a process, the token is possibly altered on the way, and it  *)
(* is decrypted under the key of a process.                                *)
(***************************************************************************)
\* The keys processes can hold: two configured values, and the keys two
\* processes generate for themselves.
FernetKeys ==
    {ProcessKey("K1", "api"), ProcessKey("K2", "api"),
     ProcessKey("generate", "api"), ProcessKey("generate", "worker")}
\* What can happen to a token: a byte is altered, or it is cut short.
Alterations == {"tampered", "malformed"}

InitCrypto ==
    /\ platforms = PLATFORMS
    /\ keys = <<>>
    /\ rules = <<>>
    /\ logs = {}
    /\ nextKeyId = 1
    /\ nextLogId = 1
    /\ queue = EmptyBag
    /\ workers = [w \in Slots |-> IdleSlot]
    /\ done = NoneDone
    /\ outcomes = NoOutcomes
    /\ sched = IdleSched
    /\ clock = 0
    /\ apiKey = ProcessKey("K1", "api")
    /\ workerKey = ProcessKey("K1", "worker")
    /\ issued = 0
    /\ ticks = 0
    /\ api = 0
    /\ call = NoCall

\* EncryptionService(key).encrypt(data)
Encrypt ==
    /\ \E key \in FernetKeys, data \in DOMAIN Text :
        call' = [function |-> "encrypt", key |-> key, data |-> data,
                 token |-> encrypt(key, data), intact |-> TRUE,
                 decrypt_key |-> key, result |-> "none"]
    /\ UNCHANGED <<tables, queue, workers, done, outcomes, sched, clock, fernet, issued,
                   ticks, api>>

\* The token is altered before it is handed to decrypt.
Tamper ==
    /\ call.function = "encrypt"
    /\ \E form \in Alterations :
        call' = [call EXCEPT !.function = "tamper",
                             !.token = [@ EXCEPT !.token = form],
                             !.intact = FALSE]
    /\ UNCHANGED <<tables, queue, workers, done, outcomes, sched, clock, fernet, issued,
                   ticks, api>>

\* EncryptionService(key).decrypt(token)
Decrypt ==
    /\ call.function \in {"encrypt", "tamper"}
    /\ \E key \in FernetKeys :
        call' = [call EXCEPT !.function = "decrypt",
                             !.decrypt_key = key,
                             !.result = decrypt(key, call.token)]
    /\ UNCHANGED <<tables, queue, workers, done, outcomes, sched, clock, fernet, issued,
                   ticks, api>>

NextCrypto ==
    \/ Encrypt
    \/ Tamper
    \/ Decrypt

SpecCrypto == InitCrypto /\ [][NextCrypto]_vars

(***************************************************************************)
(* Steps of a check execution, read off two successive states.             *)
(***************************************************************************)
\* The history rows of a credential.
History(table, key_id) == {r \in table : r.key_id = key_id}

\* The execution in slot w ends in this step; done' is its record.
Ends(w) == workers[w].pc \in {"fetch", "commit", "notify"} /\ workers'[w].pc = "idle"

\* A queued check job of key_id is taken and ends before its first await;
\* done' is its record.
EndsAtStart(key_id) ==
    /\ CopiesIn(CheckJob(key_id), queue) > 0
    /\ queue' = queue (-) SetToBag({CheckJob(key_id)})
    /\ workers' = workers

\* A check execution of key_id ends in failure in this step.
Fails(key_id) == outcomes'[key_id].failed = outcomes[key_id].failed + 1

\* The execution in slot w commits in this step.
Commits(w) == workers[w].pc = "commit" /\ workers'[w].pc = "notify"

\* The execution in slot w passes the rule lookup and the enqueue in this step.
Decides(w) == workers[w].pc = "notify" /\ workers'[w].pc = "idle"

\* No check of key_id is running.
Quiescent(key_id) ==
    \A w \in Slots : workers[w].pc = "idle" \/ workers[w].key_id # key_id

\* The rule is due for balance b at the lookup of line 90.
Due(key_id, b) == key_id \in DOMAIN rules /\ b <= rules[key_id].threshold_amount

\* The job lines 96-103 enqueue for balance b.
DueJob(key_id, b) ==
    NotifyJob(key_id, b, rules[key_id].threshold_amount,
              rules[key_id].notification_channel, rules[key_id].channel_address)

(***************************************************************************)
(* C1 as stated: an execution that fetched b and committed it enqueues     *)
(* exactly one send_notification job (key_id, b, threshold, channel,       *)
(* address) when a rule exists with b <= threshold, and none otherwise.    *)
(* It fails when the rule lookup or the enqueue raises after the commit.   *)
(***************************************************************************)
C1_AlwaysEnqueued ==
    [][\A w \in Slots : Decides(w) =>
        LET key_id == workers[w].key_id
            b == workers[w].balance.val
        IN  queue' = IF Due(key_id, b) THEN queue (+) SetToBag({DueJob(key_id, b)})
                     ELSE queue]_vars

(***************************************************************************)
(* C1, amended: an execution that fetched b, committed it and then         *)
(* returns has enqueued exactly one send_notification job (key_id, b,      *)
(* threshold, channel, address) when a rule exists with b <= threshold and *)
(* none otherwise; an execution that raises after its commit (at the rule  *)
(* lookup, or at the enqueue of a due notification) has enqueued none.     *)
(***************************************************************************)
C1_NotifyDecision ==
    [][\A w \in Slots : Decides(w) =>
        LET key_id == workers[w].key_id
            b == workers[w].balance.val
        IN  IF done'.outcome = "ok"
            THEN /\ queue' = IF Due(key_id, b)
                             THEN queue (+) SetToBag({DueJob(key_id, b)})
                             ELSE queue
                 /\ done'.enqueued = IF Due(key_id, b) THEN 1 ELSE 0
            ELSE /\ queue' = queue
                 /\ done'.outcome = "failed"
                 /\ done'.error \in {"rule_query", "enqueue"}
                 /\ done'.error = "enqueue" => Due(key_id, b)]_vars

\* A check returned after enqueueing the notification of its balance.
C1_Witness ==
    /\ done.function = "check_single_key"
    /\ done.outcome = "ok"
    /\ done.enqueued = 1
    /\ \E job \in BagToSet(queue) :
        /\ job.function = "send_notification"
        /\ job.key_id = done.key_id
        /\ job.balance <= job.threshold

(***************************************************************************)
(* C2 as stated: when the enqueue fails for one enumerated id, a check job *)
(* has still been enqueued for every other enumerated id once the tick is  *)
(* over.                                                                   *)
(***************************************************************************)
C2_EnqueueIndependent ==
    sched.pc = "idle" /\ sched.failed_id # 0 =>
        \A i \in DOMAIN sched.all_keys :
            sched.all_keys[i] # sched.failed_id =>
                \E j \in DOMAIN sched.sent : sched.sent[j] = sched.all_keys[i]

(***************************************************************************)
(* C3: a tick enumerates exactly the stored credential ids, each once;     *)
(* every turn of its loop that does not fail puts exactly one              *)
(* check_single_key job, for the next enumerated id, on the queue; and a   *)
(* tick that ends without a failed enqueue has done so for each            *)
(* enumerated id, in order.                                                *)
(***************************************************************************)
C3_OneJobPerKey ==
    [][/\ sched.pc = "idle" /\ sched'.pc = "loop" =>
            /\ Len(sched'.all_keys) = Cardinality(DOMAIN keys)
            /\ {sched'.all_keys[i] : i \in DOMAIN sched'.all_keys} = DOMAIN keys
            /\ sched'.sent = <<>>
       /\ sched.pc = "loop" /\ sched'.pc = "loop" /\ sched' # sched =>
            LET id == sched.all_keys[Len(sched.sent) + 1] IN
            /\ sched'.sent = Append(sched.sent, id)
            /\ queue' = queue (+) SetToBag({CheckJob(id)})
       /\ sched' = sched => \A k \in KeyIds :
            CopiesIn(CheckJob(k), queue') <= CopiesIn(CheckJob(k), queue)
       /\ sched.pc = "loop" /\ sched'.pc = "idle" /\ sched'.outcome = "ok" =>
            /\ sched'.sent = sched.all_keys
            /\ queue' = queue]_vars

\* A tick over two credentials ended with a job sent for each.
C3_Witness ==
    /\ sched.pc = "idle"
    /\ sched.outcome = "ok"
    /\ Len(sched.sent) = 2
    /\ {sched.sent[i] : i \in DOMAIN sched.sent} = KeyIds

(***************************************************************************)
(* C4: a step changes a credential's last_known_balance or last_checked    *)
(* exactly when it adds a history record of that credential, and then it   *)
(* adds one record, and the timestamp on the credential and the balance on *)
(* the record are those of one check execution: no step leaves the update  *)
(* without the record or the record without the update.                    *)
(***************************************************************************)
C4_AtomicPersist ==
    [][\A k \in DOMAIN keys \cap DOMAIN keys' :
        LET added == History(logs', k) \ logs
            updated == \/ keys'[k].last_known_balance # keys[k].last_known_balance
                       \/ keys'[k].last_checked # keys[k].last_checked
        IN  /\ updated <=> added # {}
            /\ \A r \in added :
                /\ added = {r}
                /\ \E w \in Slots :
                    /\ Commits(w)
                    /\ workers[w].key_id = k
                    /\ keys'[k].last_checked = workers[w].last_checked
                    /\ r.balance = workers[w].balance.val]_vars

\* One commit went through and a later one was rolled back.
C4_Witness ==
    /\ done.outcome = "failed"
    /\ done.error = "persist"
    /\ done.key_id \in DOMAIN keys
    /\ keys[done.key_id].last_checked # Null
    /\ History(logs, done.key_id) # {}

(***************************************************************************)
(* C5 as stated: whenever a check execution raises, for any reason, no     *)
(* balance or timestamp update and no history record of that execution     *)
(* remain in the database.  It fails for an execution that raises after    *)
(* its commit.                                                             *)
(***************************************************************************)
C5_NothingRemains ==
    [][\A k \in KeyIds : Fails(k) =>
        /\ done'.outcome = "failed"
        /\ \A r \in logs' : Num(r.id) # done'.log_id]_vars

(***************************************************************************)
(* C5, amended: the step in which a check execution raises changes no      *)
(* credential and no history record, and the execution is recorded as      *)
(* failed; if it raised at the decrypt, the adapter resolution, the fetch  *)
(* or the commit, the database holds no history record of it; if it raised *)
(* after the commit (rule lookup, notify enqueue), its committed record    *)
(* stays for as long as the credential does.                               *)
(***************************************************************************)
C5_RollbackBeforeCommit ==
    [][\A k \in KeyIds : Fails(k) =>
        /\ done'.outcome = "failed"
        /\ done'.key_id = k
        /\ keys' = keys
        /\ logs' = logs
        /\ IF done'.error \in {"decrypt", "adapter", "fetch", "persist"}
           THEN /\ done'.log_id = Null
                /\ \A r \in logs' : Num(r.id) # done'.log_id
           ELSE /\ done'.error \in {"rule_query", "enqueue"}
                /\ k \in DOMAIN keys => \E r \in History(logs', k) : Num(r.id) = done'.log_id]_vars

\* A check raised at the notify enqueue and its history record is in the table.
C5_Witness ==
    /\ done.outcome = "failed"
    /\ done.error = "enqueue"
    /\ \E r \in logs : Num(r.id) = done.log_id

(***************************************************************************)
(* C6: an execution that ends at the decrypt, the adapter resolution, the  *)
(* fetch or the commit ends in failure, and that step changes no           *)
(* credential, adds no history record and enqueues nothing; an execution   *)
(* that ends without failure either committed or found its credential or   *)
(* its platform missing.                                                   *)
(***************************************************************************)
C6_FailureLeavesNothing ==
    [][/\ \A w \in Slots : Ends(w) /\ workers[w].pc \in {"fetch", "commit"} =>
            /\ done'.outcome = "failed"
            /\ done'.key_id = workers[w].key_id
            /\ done'.error = IF workers[w].pc = "fetch" THEN "fetch" ELSE "persist"
            /\ done'.log_id = Null
            /\ done'.enqueued = 0
            /\ keys' = keys
            /\ logs' = logs
            /\ queue' = queue
       /\ \A k \in KeyIds : EndsAtStart(k) =>
            /\ done'.key_id = k
            /\ done'.log_id = Null
            /\ done'.enqueued = 0
            /\ keys' = keys
            /\ logs' = logs
            /\ IF k \in DOMAIN keys /\ keys[k].platform_id \in DOMAIN platforms
               THEN done'.outcome = "failed" /\ done'.error \in {"decrypt", "adapter"}
               ELSE done'.outcome = "not_found"
       /\ \A w \in Slots : Ends(w) /\ done'.outcome # "failed" =>
            /\ done'.outcome = "ok"
            /\ done'.log_id # Null]_vars

\* A check raised at the fetch, after its request.
C6_Witness ==
    /\ done.function = "check_single_key"
    /\ done.outcome = "failed"
    /\ done.error = "fetch"
    /\ done.requests = 1

\* With no check running and none failed so far, a stored credential has one
\* history record per check that completed.
Counted ==
    \A k \in DOMAIN keys :
        Quiescent(k) /\ outcomes[k].failed = 0 =>
            Cardinality(History(logs, k)) = outcomes[k].ok

C8_LastWriteWins ==
    [][\A w \in Slots : Commits(w) =>
        /\ keys'[workers[w].key_id].last_known_balance = workers[w].balance
        /\ keys'[workers[w].key_id].last_checked = workers[w].last_checked
        /\ logs \subseteq logs']_vars

(***************************************************************************)
(* C9: a check job that finds its credential or its credential's platform  *)
(* missing returns, not failed, having attempted no decrypt and no         *)
(* request, with no table changed and nothing enqueued.                    *)
(***************************************************************************)
C9_MissingIsNoError ==
    [][\A k \in KeyIds :
        /\ EndsAtStart(k)
        /\ k \notin DOMAIN keys \/ keys[k].platform_id \notin DOMAIN platforms
        => /\ done'.function = "check_single_key"
           /\ done'.key_id = k
           /\ done'.outcome = "not_found"
           /\ done'.error = "none"
           /\ ~done'.decrypted
           /\ done'.requests = 0
           /\ done'.enqueued = 0
           /\ done'.log_id = Null
           /\ tables' = tables
           /\ outcomes' = outcomes]_vars

\* A check job returned because its credential had been deleted.
C9_Witness ==
    /\ done.function = "check_single_key"
    /\ done.outcome = "not_found"
    /\ done.key_id \notin DOMAIN keys
    /\ ~done.decrypted

(***************************************************************************)
(* C10: the step in which a check of one credential fails changes no other *)
(* credential's row, history or tally, neither removes nor adds a queued   *)
(* check job of another credential, leaves the other running jobs as they  *)
(* are, and leaves the scheduler's fan-out where it was.                   *)
(***************************************************************************)
C10_FailureIsolated ==
    [][\A k \in KeyIds : Fails(k) =>
        /\ sched' = sched
        /\ \A j \in KeyIds \ {k} :
            /\ j \in DOMAIN keys <=> j \in DOMAIN keys'
            /\ j \in DOMAIN keys => keys'[j] = keys[j]
            /\ History(logs', j) = History(logs, j)
            /\ outcomes'[j] = outcomes[j]
            /\ CopiesIn(CheckJob(j), queue') = CopiesIn(CheckJob(j), queue)
            /\ \A w \in Slots : workers[w].key_id = j => workers'[w] = workers[w]]_vars

\* One credential's check failed while the fan-out still has an id to enqueue.
C10_Witness ==
    /\ sched.pc = "loop"
    /\ sched.todo # <<>>
    /\ done.function = "check_single_key"
    /\ done.outcome = "failed"
    /\ done.key_id # Head(sched.todo)

(***************************************************************************)
(* C11: a check that returns, for a credential with a rule, has enqueued   *)
(* one notify job for its fetched balance b exactly when b <= threshold,   *)
(* whatever balance was stored before: also when the stored balance was    *)
(* already at or under the threshold, and not when only the stored         *)
(* balance was.                                                            *)
(***************************************************************************)
C11_LevelTriggered ==
    [][\A w \in Slots :
        /\ Decides(w)
        /\ done'.outcome = "ok"
        /\ workers[w].key_id \in DOMAIN rules
        => LET key_id == workers[w].key_id
               b == workers[w].balance.val
               notified == CopiesIn(DueJob(key_id, b), queue')
                               = CopiesIn(DueJob(key_id, b), queue) + 1
           IN  /\ notified <=> b <= rules[key_id].threshold_amount
               /\ ~notified => queue' = queue]_vars

\* Two checks in a row found the balance at the threshold, and each of them
\* left its notify job on the queue.
C11_Witness ==
    \E k \in DOMAIN rules :
        /\ k \in DOMAIN keys
        /\ Quiescent(k)
        /\ outcomes[k] = [ok |-> 2, failed |-> 0]
        /\ \A r \in History(logs, k) : r.balance <= rules[k].threshold_amount
        /\ CopiesIn(DueJob(k, keys[k].last_known_balance.val), queue) = 2
(***************************************************************************)
(* C12: when a check is applied again to a credential (no other commit     *)
(* having changed the balance since this execution loaded it), its commit  *)
(* overwrites last_known_balance and last_checked with its own fetch       *)
(* result and timestamp, whatever the earlier application had stored,      *)
(* leaves every other field and table as it was, and adds exactly one      *)
(* history record.                                                         *)
(***************************************************************************)
C12_ReapplyOverwrites ==
    [][\A w \in Slots :
        /\ Commits(w)
        /\ keys[workers[w].key_id].last_known_balance = workers[w].loaded_balance
        => LET k == workers[w].key_id IN
           /\ keys' = [keys EXCEPT ![k] =
                         [@ EXCEPT !.last_known_balance = workers[w].balance,
                                   !.last_checked = workers[w].last_checked]]
           /\ \E r \in logs' \ logs :
                /\ logs' = logs \cup {r}
                /\ r.key_id = k
                /\ r.balance = workers[w].balance.val
           /\ rules' = rules
           /\ platforms' = platforms]_vars

\* A check failed after its commit and the check applied next completed:
\* the credential holds the second result and has the two history records.
C12_Witness ==
    \E k \in DOMAIN keys :
        /\ Quiescent(k)
        /\ outcomes[k] = [ok |-> 1, failed |-> 1]
        /\ done.outcome = "ok"
        /\ done.key_id = k
        /\ Cardinality(History(logs, k)) = 2
        /\ \E r \in History(logs, k) :
            /\ Num(r.id) = done.log_id
            /\ \A q \in History(logs, k) : q.id <= r.id
            /\ keys[k].last_known_balance = Num(r.balance)
            /\ keys[k].last_checked = Num(r.timestamp - 1)
\* The usage request of an answer failed: no answer, a status outside 2xx,
\* or a body from which no usage can be read.
FailedRequest(resp) ==
    \/ ~IsSuccess(resp.status)
    \/ resp.body \in {"not_json", "not_number"}

(***************************************************************************)
(* C13 as stated: once the metadata holds a grant, fetch_balance of the    *)
(* estimate adapter never raises: it returns an estimate, and when the     *)
(* usage request failed in any way the balance returned is the grant.  It  *)
(* fails for a transport failure and for a 2xx answer whose body is not    *)
(* JSON or holds no number, which the code lets propagate.                 *)
(***************************************************************************)
C13_EstimateNeverRaises ==
    /\ call.function = "fetch_balance"
    /\ call.adapter.cls = "OpenAIUsageAdapter"
    /\ "total_grant" \in DOMAIN call.adapter.metadata
    => /\ call.result.ok
       /\ call.result.is_estimate
       /\ FailedRequest(call.resp)
            => call.result.balance = call.adapter.metadata["total_grant"]
(***************************************************************************)
(* C14 as stated: fetch_balance of the exact adapter returns a balance     *)
(* only for a 2xx answer whose body holds a number under "credits", and    *)
(* then that number; every other answer is a fetch error.  It fails for a  *)
(* 2xx answer without the field, for which the code returns 0.             *)
(***************************************************************************)
C14_NoFallbackBalance ==
    /\ call.function = "fetch_balance"
    /\ call.adapter.cls = "OpenRouterAdapter"
    => /\ call.result.ok <=> IsSuccess(call.resp.status) /\ call.resp.body = "number"
       /\ call.result.ok => call.result.balance = call.resp.value
(***************************************************************************)
(* C15: fetch_balance of the estimate adapter, called with a metadata that *)
(* has no total_grant, raises ValueError without having issued a request   *)
(* and without having consumed an answer of the usage endpoint.            *)
(***************************************************************************)
C15_NoGrantNoRequest ==
    /\ call.function = "fetch_balance"
    /\ call.adapter.cls = "OpenAIUsageAdapter"
    /\ "total_grant" \notin DOMAIN call.adapter.metadata
    => /\ call.result = Err("ValueError")
       /\ call.requests = 0
       /\ call.resp = Null

\* fetch_balance was called on an estimate adapter built without a grant,
\* from the empty dict and from None.
C15_Witness ==
    /\ call.function = "fetch_balance"
    /\ call.adapter.cls = "OpenAIUsageAdapter"
    /\ call.metadata = Null
    /\ call.adapter.metadata = NoMetadata
    /\ ~call.result.ok
(***************************************************************************)
(* C16: with a grant g in the metadata, fetch_balance of the estimate      *)
(* adapter returns balance g, flagged as an estimate, when the usage       *)
(* endpoint answers 404, and, when it answers 2xx with a total_usage of u  *)
(* minor units, the balance g - u/100, or 0 when that is negative, flagged *)
(* as an estimate; g = 100 and u = 3000 give 70.  Whatever fetch_balance   *)
(* of the exact adapter returns is not flagged as an estimate.             *)
(***************************************************************************)
C16_EstimateArithmetic ==
    call.function = "fetch_balance" =>
        LET g == call.adapter.metadata["total_grant"]
            u == call.resp.value
        IN  /\ /\ call.adapter.cls = "OpenAIUsageAdapter"
               /\ "total_grant" \in DOMAIN call.adapter.metadata
               => /\ call.resp.status = 404
                     => call.result = Ok(g, TRUE)
                  /\ IsSuccess(call.resp.status) /\ call.resp.body = "number"
                     => /\ call.result.ok
                        /\ call.result.is_estimate
                        /\ g * 100 >= u => call.result.balance * 100 = g * 100 - u
                        /\ g * 100 < u => call.result.balance = 0
                  /\ g = 100 /\ IsSuccess(call.resp.status) /\ u = 3000
                     => call.result.balance = 70
            /\ call.adapter.cls = "OpenRouterAdapter" /\ call.result.ok
               => ~call.result.is_estimate

\* The example of the specification: grant 100, usage 3000, balance 70.
C16_Witness ==
    /\ call.function = "fetch_balance"
    /\ call.adapter.cls = "OpenAIUsageAdapter"
    /\ call.adapter.metadata = [total_grant |-> 100]
    /\ call.resp = [status |-> 200, body |-> "number", value |-> 3000]
    /\ call.result = Ok(70, TRUE)
(***************************************************************************)
(* C20: create_adapter returns an OpenRouterAdapter for "openrouter" and   *)
(* an OpenAIUsageAdapter for "openai", holding the api_key and the         *)
(* metadata it was given (the empty dict for None), and raises ValueError  *)
(* for every other identifier; whatever the api_key and the metadata, it   *)
(* raises for no registered identifier.                                    *)
(***************************************************************************)
C20_RegistryResolves ==
    call.function = "create_adapter" =>
        /\ call.adapter_identifier = "openrouter"
            => call.adapter.cls = "OpenRouterAdapter"
        /\ call.adapter_identifier = "openai"
            => call.adapter.cls = "OpenAIUsageAdapter"
        /\ call.adapter_identifier \in {"openrouter", "openai"}
            => /\ call.adapter.api_key = call.api_key
               /\ call.metadata # Null => call.adapter.metadata = call.metadata
               /\ call.metadata = Null => call.adapter.metadata = NoMetadata
        /\ call.adapter = UnknownAdapter
            <=> call.adapter_identifier \notin {"openrouter", "openai"}

\* An identifier that is not registered was resolved, with a full metadata.
C20_Witness ==
    /\ call.function = "create_adapter"
    /\ call.adapter_identifier = "anthropic"
    /\ call.metadata = [total_grant |-> 100]
    /\ call.adapter = UnknownAdapter
(***************************************************************************)
(* C17: in every state reached by registrations and check jobs, the        *)
(* api_key_encrypted of every stored credential is a Fernet token made     *)
(* under the API process's key, which decrypts to the secret, and no text  *)
(* held by a credential row, a rule, a history row or a queued job is the  *)
(* secret: these rows and jobs have no field besides the ones listed, and  *)
(* the secret is in none of them.                                          *)
(***************************************************************************)
C17_SecretNeverPersists ==
    /\ \A k \in DOMAIN keys :
        /\ DOMAIN keys[k] = {"name", "api_key_encrypted", "metadata", "last_known_balance",
                             "last_checked", "user_id", "platform_id"}
        /\ keys[k].api_key_encrypted.token = "fernet"
        /\ keys[k].api_key_encrypted.key = apiKey
        /\ decrypt(apiKey, keys[k].api_key_encrypted) \in Secrets
        /\ keys[k].name \notin Secrets
        /\ DOMAIN keys[k].metadata \subseteq {"total_grant"}
    /\ \A k \in DOMAIN rules :
        /\ rules[k].notification_channel \notin Secrets
        /\ rules[k].channel_address \notin Secrets
    /\ \A r \in logs : DOMAIN r = {"id", "key_id", "balance", "timestamp"}
    /\ \A job \in BagToSet(queue) :
        \/ job = CheckJob(job.key_id)
        \/ /\ DOMAIN job = {"function", "key_id", "balance", "threshold", "channel",
                             "address"}
           /\ job.function = "send_notification"
           /\ job.channel \notin Secrets
           /\ job.address \notin Secrets

\* A check decrypted the secret of a registered credential, committed a
\* history row and put a notification on the queue.
C17_Witness ==
    /\ done.function = "check_single_key"
    /\ done.decrypted
    /\ done.outcome = "ok"
    /\ done.key_id \in DOMAIN keys
    /\ decrypt(workerKey, keys[done.key_id].api_key_encrypted) \in Secrets
    /\ \E r \in logs : Num(r.id) = done.log_id
    /\ \E job \in BagToSet(queue) :
        job.function = "send_notification" /\ job.key_id = done.key_id
\* A step in which a worker takes the send_notification job off the queue
\* and runs it to its end.
Sends(job) ==
    /\ job.function = "send_notification"
    /\ CopiesIn(job, queue) > 0
    /\ queue' = queue (-) SetToBag({job})

(***************************************************************************)
(* C18: a send_notification job whose channel is neither "email" nor       *)
(* "webhook" opens no SMTP session and issues no POST, raises nothing and  *)
(* returns; it changes no table and the job is off the queue for good.     *)
(***************************************************************************)
C18_UnknownChannelDropped ==
    [][\A job \in BagToSet(queue) :
        Sends(job) /\ job.channel \notin {"email", "webhook"}
        => /\ done'.function = "send_notification"
           /\ done'.key_id = job.key_id
           /\ done'.requests = 0
           /\ done'.delivery = Null
           /\ done'.outcome \in {"ok", "not_found"}
           /\ done'.error = "none"
           /\ tables' = tables]_vars

\* A job on an unknown channel, for a stored credential, has run and returned.
C18_Witness ==
    /\ done.function = "send_notification"
    /\ done.key_id \in DOMAIN keys
    /\ done.outcome = "ok"
    /\ done.requests = 0
    /\ done.delivery = Null

C21_RoundTrip ==
    call.function = "decrypt" =>
        IF call.intact /\ call.decrypt_key = call.key
        THEN call.result = call.data
        ELSE call.result = DecryptionError /\ call.result \notin DOMAIN Text

\* A str outside ASCII went through encrypt and decrypt under the key a
\* process generated for itself.
C21_Witness ==
    /\ call.function = "decrypt"
    /\ call.intact
    /\ call.data = "eur5"
    /\ call.key = ProcessKey("generate", "api")
    /\ call.decrypt_key = call.key
    /\ call.token.data = <<226, 130, 172, 53>>
    /\ call.result = "eur5"
Answers ==
    /\ call'.function = "trigger_check"
    /\ \/ call' # call
       \/ \E k \in RequestIds :
            CopiesIn(CheckJob(k), queue') > CopiesIn(CheckJob(k), queue)

CheckSteps ==
    \/ workers' # workers
    \/ done' # done /\ done'.function = "check_single_key"

(***************************************************************************)
(* C24: a step of a check job leaves the platforms and the rules as they   *)
(* are and neither adds nor removes a credential; the only row it may      *)
(* change is the one of its own credential, at its commit, and of that row *)
(* only last_known_balance and last_checked; the only history rows it adds *)
(* are rows of that credential, and it removes none.                       *)
(***************************************************************************)
C24_CheckFrame ==
    [][CheckSteps =>
        /\ platforms' = platforms
        /\ rules' = rules
        /\ nextKeyId' = nextKeyId
        /\ DOMAIN keys' = DOMAIN keys
        /\ logs \subseteq logs'
        /\ \A k \in DOMAIN keys :
            /\ \A f \in DOMAIN keys[k] \ {"last_known_balance", "last_checked"} :
                keys'[k][f] = keys[k][f]
            /\ \/ keys'[k] # keys[k]
               \/ \E r \in logs' \ logs : r.key_id = k
               => \E w \in Slots : Commits(w) /\ workers[w].key_id = k]_vars

\* Both stored credentials have been checked and hold a balance; their
\* other fields and the rules are the stored ones.
C24_Witness ==
    /\ DOMAIN keys = KeyIds
    /\ \A k \in KeyIds :
        /\ keys[k].last_checked # Null
        /\ keys[k].last_known_balance # Null
        /\ keys[k] = [StoredKey(k) EXCEPT
                         !.last_checked = keys[k].last_checked,
                         !.last_known_balance = keys[k].last_known_balance]
        /\ \E r \in logs : r.key_id = k
    /\ \A w \in Slots : workers[w].pc = "idle"
(***************************************************************************)
(* C25: whatever the check jobs, the notify jobs and the scheduler do, in  *)
(* whatever order, every history row of a credential that stays stored is  *)
(* still there, unchanged, after the step, and a row that is added takes   *)
(* the id of no row already there.                                         *)
(***************************************************************************)
C25_HistoryAppendOnly ==
    [][/\ \A k \in DOMAIN keys \cap DOMAIN keys' :
            History(logs, k) \subseteq History(logs', k)
       /\ \A r \in logs' \ logs : \A q \in logs : q.id # r.id]_vars

\* The tick is over, both credentials have their history row and a
\* notification job has run.
C25_Witness ==
    /\ sched.outcome = "ok"
    /\ DOMAIN keys = KeyIds
    /\ \A k \in KeyIds : Cardinality(History(logs, k)) = 1
    /\ done.function = "send_notification"
    /\ queue = EmptyBag
(***************************************************************************)
(* C26: for every send_notification job on the queue whose credential is   *)
(* stored, a committed history row of that credential with the job's       *)
(* balance exists.                                                         *)
(***************************************************************************)
C26_NotifyAfterCommit ==
    \A job \in BagToSet(queue) :
        job.function = "send_notification" /\ job.key_id \in DOMAIN keys
        => \E r \in logs : r.key_id = job.key_id /\ r.balance = job.balance

\* A notification is on the queue for a stored credential while a second
\* check of that credential has fetched and not yet committed.
C26_Witness ==
    \E job \in BagToSet(queue), w \in Slots :
        /\ job.function = "send_notification"
        /\ job.key_id \in DOMAIN keys
        /\ workers[w].pc = "commit"
        /\ workers[w].key_id = job.key_id
        /\ workers[w].balance.val # job.balance
(***************************************************************************)
(* C27 as stated: whatever non-empty value MASTER_ENCRYPTION_KEY has, the  *)
(* worker process decrypts every stored api_key_encrypted to the secret    *)
(* that was registered, and no check ends at the decrypt.  It fails for    *)
(* the value "generate", with which the API process and the worker process *)
(* each draw a key of their own.                                           *)
(***************************************************************************)
C27_WorkerDecryptsStored ==
    /\ \A k \in DOMAIN keys :
        decrypt(workerKey, keys[k].api_key_encrypted)
            = decrypt(apiKey, keys[k].api_key_encrypted)
    /\ done.error # "decrypt"
(***************************************************************************)
(* C28 as stated: every send_notification job on the channel "email" or    *)
(* "webhook" makes a delivery attempt to its address, whether or not the   *)
(* row of its credential is still stored.  It fails for a job whose        *)
(* credential is gone: the code returns before the channel is looked at.   *)
(***************************************************************************)
C28_DeliveryWhateverTheRow ==
    [][\A job \in BagToSet(queue) :
        Sends(job) /\ job.channel \in {"email", "webhook"}
        => /\ done'.requests = 1
           /\ done'.delivery # Null
           /\ done'.delivery.to = job.address]_vars
====
